---- MODULE Spec2Model ----
(***************************************************************************)
(* A model of the repository layer of nestjs-mongodb:                      *)
(*   src/src/db-operations.service.ts          DbOperationsService         *)
(*   src/src/db-operations-factory.service.ts  DbOperationsServiceFactory  *)
(*                                                                         *)
(* The document store behind the Collection / ClientSession handles is an  *)
(* external collaborator.  It is modelled by what the service's calls and  *)
(* the tests rely on: an ordered collection of documents, equality         *)
(* filters, the $set / $unset update directives, and sessions whose        *)
(* transaction buffers the writes made under it until commit.              *)
(***************************************************************************)
EXTENDS Integers, Sequences, FiniteSets, TLC

\* ------------------------------------------------------------------
\* Bounds of the model
\* ------------------------------------------------------------------
MaxIds == 2

MaxSessions == 1

MaxTxnOps == 1

MaxTime == 1

MaxCalls == 3

\* ------------------------------------------------------------------
\* Values and documents
\* ------------------------------------------------------------------
\* A value is a tagged number, so that an ObjectId, its hex string, a
\* number, a string and a Date are all different values.
STR(n) == <<"str", n>>

NUM(n) == <<"num", n>>

OID(n) == <<"oid", n>>

HEX(n) == <<"hex", n>>

DATE(n) == <<"date", n>>

\* A document (and a filter, and the body of an update directive) is a
\* function from field names to values.
EmptyDoc == << >>

\* { ...a, ...b }: the fields of a overlaid with those of b, b winning.
Spread(a, b) ==
    [k \in (DOMAIN a) \cup (DOMAIN b) |-> IF k \in DOMAIN b THEN b[k] ELSE a[k]]

Without(d, keys) == [k \in (DOMAIN d) \ keys |-> d[k]]

\* options.session: 0 is "no session given", s > 0 names a ClientSession.
NoSession == 0

Sessions == 1..MaxSessions

\* ------------------------------------------------------------------
\* Metadata producers
\* ------------------------------------------------------------------
\* "none": the option is not given.  "empty": () => ({}).
\* "counter": a closure  () => ({age: ++n})  with n starting at 0 for the
\* operation it is handed to, so that its invocations can be told apart.
Producers == {"none", "empty", "counter"}

\* The value the producer p returns at its i-th invocation.
Invoke(p, i) == IF p = "counter" THEN [age |-> NUM(i)] ELSE EmptyDoc

\* ------------------------------------------------------------------
\* The document store (external): filters, updates, commands
\* ------------------------------------------------------------------
\* An equality filter: every field of the filter is in the document with
\* that value.  The empty filter matches every document.
Matches(doc, filter) ==
    \A k \in DOMAIN filter : k \in DOMAIN doc /\ doc[k] = filter[k]

\* The index of the first document matching the filter, 0 when none does.
FirstMatch(coll, filter) ==
    LET hits == {i \in 1..Len(coll) : Matches(coll[i], filter)}
    IN  IF hits = {} THEN 0 ELSE CHOOSE i \in hits : \A j \in hits : i <= j

HasDirective(update, d) == d \in DOMAIN update

Directive(update, d) == IF HasDirective(update, d) THEN update[d] ELSE EmptyDoc

\* The store applies $set (overlay) and $unset (remove) to one document.
ApplyUpdate(doc, update) ==
    Without(Spread(doc, Directive(update, "$set")),
            DOMAIN Directive(update, "$unset"))

NoCmd == [kind |-> "none"]

Null == [kind |-> "null"]

Found(doc) == [kind |-> "doc", doc |-> doc]

Ack(n) == [kind |-> "ack", n |-> n]

ExpiredSession == [kind |-> "error"]

\* The collection after the store has executed a write command.
ExecColl(coll, cmd) ==
    CASE cmd.kind = "insertOne" -> Append(coll, cmd.doc)
      [] cmd.kind = "insertMany" -> coll \o cmd.docs
      [] cmd.kind = "updateOne" ->
            LET i == FirstMatch(coll, cmd.filter)
            IN  IF i = 0 THEN coll
                ELSE [coll EXCEPT ![i] = ApplyUpdate(coll[i], cmd.update)]
      [] cmd.kind = "updateMany" ->
            [i \in 1..Len(coll) |->
                IF Matches(coll[i], cmd.filter)
                THEN ApplyUpdate(coll[i], cmd.update) ELSE coll[i]]
      [] cmd.kind = "replaceOne" ->
            LET i == FirstMatch(coll, cmd.filter)
            IN  IF i = 0 THEN coll
                ELSE [coll EXCEPT
                        ![i] = Spread(cmd.doc, [_id |-> coll[i]["_id"]])]
      [] cmd.kind = "deleteOne" ->
            LET i == FirstMatch(coll, cmd.filter)
            IN  IF i = 0 THEN coll
                ELSE SubSeq(coll, 1, i - 1) \o SubSeq(coll, i + 1, Len(coll))
      [] cmd.kind = "deleteMany" ->
            SelectSeq(coll, LAMBDA d : ~Matches(d, cmd.filter))
      [] OTHER -> coll

\* What the store answers to a command executed against coll.
ExecResult(coll, cmd) ==
    CASE cmd.kind = "insertOne" -> [kind |-> "ack", n |-> 1, id |-> cmd.doc["_id"]]
      [] cmd.kind = "insertMany" -> Ack(Len(cmd.docs))
      [] cmd.kind \in {"updateOne", "replaceOne", "deleteOne"} ->
            Ack(IF FirstMatch(coll, cmd.filter) = 0 THEN 0 ELSE 1)
      [] cmd.kind \in {"updateMany", "deleteMany"} ->
            Ack(Cardinality({i \in 1..Len(coll) : Matches(coll[i], cmd.filter)}))
      [] cmd.kind = "findOne" ->
            LET i == FirstMatch(coll, cmd.filter)
            IN  IF i = 0 THEN Null ELSE Found(coll[i])
      [] OTHER -> Null

RECURSIVE ExecAll(_, _)
ExecAll(coll, cmds) ==
    IF cmds = << >> THEN coll
    ELSE ExecAll(ExecColl(coll, Head(cmds)), Tail(cmds))

\* ------------------------------------------------------------------
\* State
\* ------------------------------------------------------------------
VARIABLES
    collection,   \* the documents of the bound collection, in natural order
    nextId,       \* the number of the next generated ObjectId
    sessions,     \* the ClientSessions handed out by startTransaction
    txnLog,       \* history: the writes the caller made in each transaction
    lastOp,       \* history: the last step of a call, its inputs and result
    clients,      \* DbOperationsServiceFactory.clients: uri -> MongoClient
    mongoClients, \* every MongoClient constructed, with its handshake state
    calls         \* the calls of DbOperationsServiceFactory.create

vars == <<collection, nextId, sessions, txnLog, lastOp,
          clients, mongoClients, calls>>

repoVars == <<collection, nextId, sessions, txnLog, lastOp>>

factoryVars == <<clients, mongoClients, calls>>

\* ------------------------------------------------------------------
\* Inputs
\* ------------------------------------------------------------------
InDocs == { [name |-> STR(1), age |-> NUM(0)], [name |-> STR(1)] }

InDocLists ==
    { << [name |-> STR(1), age |-> NUM(0)] >>,
      << [name |-> STR(1), age |-> NUM(0)], [name |-> STR(1)] >> }

InFilters == { EmptyDoc, [age |-> NUM(0)] }

\* The updates never $unset a field that a $set or a producer writes: the
\* store rejects such an update, and no call of the tests makes one.
InUpdates ==
    { ("$set" :> [age |-> NUM(0)]), ("$unset" :> [deletedAt |-> STR(0)]) }

InReplacements == { EmptyDoc, [name |-> STR(2)] }

\* The sessions a caller can hold: those startTransaction has returned.
HeldSessions == {NoSession} \cup {s \in Sessions : sessions[s].state # "Idle"}

\* DbOperationOptions (the debug flag only switches logging): the options
\* of a call that inserts, of one that updates, and of any other call.
InsertOptions ==
    [createMetaData : Producers, updateMetaData : {"none"},
     session : HeldSessions]

UpdateOptions ==
    [createMetaData : {"none"}, updateMetaData : Producers,
     session : HeldSessions]

Options ==
    [createMetaData : {"none"}, updateMetaData : {"none"},
     session : HeldSessions]

\* A caller of a read may also pass includeDeleted, which is no field of
\* DbOperationOptions.
FindOptions ==
    [createMetaData : {"none"}, updateMetaData : {"none"},
     session : HeldSessions, includeDeleted : BOOLEAN]

\* ------------------------------------------------------------------
\* A store call made with { session: options.session }
\* ------------------------------------------------------------------
Expired(s) == s # NoSession /\ sessions[s].ended

InTransaction(s) == s # NoSession /\ sessions[s].state = "Active"

\* What a read or write made with session s sees.
View(s) ==
    IF InTransaction(s) THEN ExecAll(collection, sessions[s].ops) ELSE collection

\* A write under an active transaction is buffered in the session; one
\* with no session (or with a session that is in no transaction) is
\* applied at once; one with an ended session is refused.
CollAfter(cmd, s) ==
    IF Expired(s) \/ InTransaction(s) THEN collection
    ELSE ExecColl(collection, cmd)

SessionsAfter(cmd, s) ==
    IF InTransaction(s) /\ ~Expired(s)
    THEN [sessions EXCEPT ![s].ops = Append(@, cmd)]
    ELSE sessions

Answer(cmd, s) ==
    IF Expired(s) THEN ExpiredSession ELSE ExecResult(View(s), cmd)

\* The room left in the transaction buffer of the model.
Room(s) == InTransaction(s) => Len(sessions[s].ops) < MaxTxnOps

\* History: the caller made the write cmd with options.session = s while
\* the transaction of s was active.
LogAfter(cmd, s) ==
    IF InTransaction(s) /\ ~Expired(s)
    THEN [txnLog EXCEPT ![s] = Append(@, cmd)]
    ELSE txnLog

Completed(entry, args, s, cmd, result, metaCalls) ==
    [op |-> entry, args |-> args, session |-> s, sent |-> cmd,
     result |-> result, metaCalls |-> metaCalls]

\* this.collection.<write>(..., { session: options.session })
Write(entry, args, cmd, s, metaCalls) ==
    /\ Room(s)
    /\ collection' = CollAfter(cmd, s)
    /\ sessions' = SessionsAfter(cmd, s)
    /\ txnLog' = LogAfter(cmd, s)
    /\ lastOp' = Completed(entry, args, s, cmd, Answer(cmd, s), metaCalls)

\* ------------------------------------------------------------------
\* DbOperationsService: metadata
\* ------------------------------------------------------------------
\* options.createMetaData?.() ?? {}   at its i-th evaluation in a call
CreateMeta(options, i) ==
    IF options.createMetaData = "none" THEN EmptyDoc
    ELSE Invoke(options.createMetaData, i)

\* How often one evaluation of  options.createMetaData?.()  invokes it.
CreateMetaCalls(options) == IF options.createMetaData = "none" THEN 0 ELSE 1

\* A merge in which the document's own fields win over the metadata.
FinalDocDocWins(doc, meta) == Spread(meta, doc)

\* { ...doc, ...(options.createMetaData?.() ?? {}) }
FinalDoc(doc, meta) == Spread(doc, meta)

\* docs.map((doc) => ({ ...doc, ...(options.createMetaData?.() ?? {}) })):
\* the callback runs once per element, in order; from is the index of the
\* first element of docs in the array.
RECURSIVE FinalDocs(_, _, _)
FinalDocs(docs, options, from) ==
    IF docs = << >> THEN << >>
    ELSE <<FinalDoc(Head(docs), CreateMeta(options, from))>>
            \o FinalDocs(Tail(docs), options, from + 1)

\* A map whose callback would share one invocation made before it.
FinalDocsCallsOnce(docs, options) == CreateMetaCalls(options)

\* The invocations of the producer made by the map over docs.
RECURSIVE FinalDocsCalls(_, _)
FinalDocsCalls(docs, options) ==
    IF docs = << >> THEN 0
    ELSE CreateMetaCalls(options) + FinalDocsCalls(Tail(docs), options)

\* const meta = options.updateMetaData?.()  : was the producer invoked
UpdateMetaCalls(options) == IF options.updateMetaData = "none" THEN 0 ELSE 1

\* A merge in which the caller's $set wins over the metadata.
UpdateDocCallerWins(update, options) ==
    IF options.updateMetaData = "none" THEN update
    ELSE Spread(update,
                "$set" :> Spread(Invoke(options.updateMetaData, 1),
                                 Directive(update, "$set")))

\* meta ? { ...update, $set: { ...update.$set, ...meta } } : update
\* (a producer's result is an object, which is truthy even when empty)
UpdateDoc(update, options) ==
    IF options.updateMetaData = "none" THEN update
    ELSE Spread(update,
                "$set" :> Spread(Directive(update, "$set"),
                                 Invoke(options.updateMetaData, 1)))

\* The driver gives a document without _id a fresh ObjectId.
WithId(doc, n) == IF "_id" \in DOMAIN doc THEN doc ELSE Spread(doc, [_id |-> OID(n)])

WithIds(docs, n) == [i \in 1..Len(docs) |-> WithId(docs[i], n + i - 1)]

\* ------------------------------------------------------------------
\* DbOperationsService: the operations
\* ------------------------------------------------------------------
\* An insertOne that hands the store no session.
insertOneWithoutSession(doc, options) ==
    /\ nextId <= MaxIds
    /\ Room(options.session)
    /\ LET finalDoc == FinalDoc(doc, CreateMeta(options, 1))
           cmd == [kind |-> "insertOne", doc |-> WithId(finalDoc, nextId)]
       IN  /\ collection' = CollAfter(cmd, NoSession)
           /\ txnLog' = LogAfter(cmd, options.session)
           /\ lastOp' = Completed("insertOne",
                                  [doc |-> doc,
                                   producer |-> options.createMetaData],
                                  options.session, cmd,
                                  Answer(cmd, NoSession),
                                  CreateMetaCalls(options))
    /\ nextId' = nextId + 1
    /\ UNCHANGED <<sessions, factoryVars>>

insertOne(doc, options) ==
    /\ nextId <= MaxIds
    /\ LET finalDoc == FinalDoc(doc, CreateMeta(options, 1))
           cmd == [kind |-> "insertOne", doc |-> WithId(finalDoc, nextId)]
       IN  Write("insertOne",
                 [doc |-> doc, producer |-> options.createMetaData],
                 cmd, options.session, CreateMetaCalls(options))
    /\ nextId' = nextId + 1
    /\ UNCHANGED factoryVars

insertMany(docs, options) ==
    /\ nextId + Len(docs) - 1 <= MaxIds
    /\ LET finalDocs == FinalDocs(docs, options, 1)
           cmd == [kind |-> "insertMany", docs |-> WithIds(finalDocs, nextId)]
       IN  Write("insertMany",
                 [docs |-> docs, producer |-> options.createMetaData],
                 cmd, options.session, FinalDocsCalls(docs, options))
    /\ nextId' = nextId + Len(docs)
    /\ UNCHANGED factoryVars

\* entry names the method the caller invoked: findOne itself, or findById.
\* What  this.collection.findOne(filter, { session: options.session })
\* resolves to in the current state.
findOneResult(filter, options) ==
    Answer([kind |-> "findOne", filter |-> filter], options.session)

findOne(entry, filter, options) ==
    /\ lastOp' = Completed(entry, [filter |-> filter], options.session,
                           [kind |-> "findOne", filter |-> filter],
                           findOneResult(filter, options), 0)
    /\ UNCHANGED <<collection, nextId, sessions, txnLog, factoryVars>>

\* new ObjectId(id) of the 24-digit hex string id
ObjectId(id) == OID(id[2])

findById(id, options) == findOne("findById", [_id |-> ObjectId(id)], options)

patchOne(entry, filter, update, options) ==
    /\ LET updateDoc == UpdateDoc(update, options)
           cmd == [kind |-> "updateOne", filter |-> filter, update |-> updateDoc]
       IN  Write(entry,
                 [filter |-> filter, update |-> update,
                  producer |-> options.updateMetaData],
                 cmd, options.session, UpdateMetaCalls(options))
    /\ UNCHANGED <<nextId, factoryVars>>

patchById(id, update, options) ==
    patchOne("patchById", [_id |-> id], update, options)

updateOne(entry, filter, update, options) ==
    /\ LET updateDoc == UpdateDoc(update, options)
           cmd == [kind |-> "updateOne", filter |-> filter, update |-> updateDoc]
       IN  Write(entry,
                 [filter |-> filter, update |-> update,
                  producer |-> options.updateMetaData],
                 cmd, options.session, UpdateMetaCalls(options))
    /\ UNCHANGED <<nextId, factoryVars>>

updateMany(entry, filter, update, options) ==
    /\ LET updateDoc == UpdateDoc(update, options)
           cmd == [kind |-> "updateMany", filter |-> filter, update |-> updateDoc]
       IN  Write(entry,
                 [filter |-> filter, update |-> update,
                  producer |-> options.updateMetaData],
                 cmd, options.session, UpdateMetaCalls(options))
    /\ UNCHANGED <<nextId, factoryVars>>

\* A replaceOne without the test for an empty replacement.
replaceOneUnguarded(filter, replacement, options) ==
    /\ Write("replaceOne",
             [filter |-> filter, replacement |-> replacement],
             [kind |-> "replaceOne", filter |-> filter, doc |-> replacement],
             options.session, 0)
    /\ UNCHANGED <<nextId, factoryVars>>

replaceOne(filter, replacement, options) ==
    /\ IF DOMAIN replacement = {}
       THEN /\ lastOp' = Completed("replaceOne",
                                   [filter |-> filter, replacement |-> replacement],
                                   options.session, NoCmd, Null, 0)
            /\ UNCHANGED <<collection, sessions, txnLog>>
       ELSE Write("replaceOne",
                  [filter |-> filter, replacement |-> replacement],
                  [kind |-> "replaceOne", filter |-> filter, doc |-> replacement],
                  options.session, 0)
    /\ UNCHANGED <<nextId, factoryVars>>

deleteOne(filter, options) ==
    /\ Write("deleteOne", [filter |-> filter],
             [kind |-> "deleteOne", filter |-> filter], options.session, 0)
    /\ UNCHANGED <<nextId, factoryVars>>

deleteMany(filter, options) ==
    /\ Write("deleteMany", [filter |-> filter],
             [kind |-> "deleteMany", filter |-> filter], options.session, 0)
    /\ UNCHANGED <<nextId, factoryVars>>

\* new Date() reads the clock: any time of the model.
softDeleteOne(filter, options) ==
    \E t \in 1..MaxTime :
        updateOne("softDeleteOne", filter,
                  "$set" :> [deletedAt |-> DATE(t)], options)

softDeleteMany(filter, options) ==
    \E t \in 1..MaxTime :
        updateMany("softDeleteMany", filter,
                   "$set" :> [deletedAt |-> DATE(t)], options)

\* ------------------------------------------------------------------
\* DbOperationsService: transactions
\* ------------------------------------------------------------------
\* A session: state is the transaction's (Idle until startTransaction
\* hands the session out), ops the writes buffered under it, ended
\* whether endSession has released it, returned whether the call of
\* commitTransaction / abortTransaction on it has completed.
IdleSession == [state |-> "Idle", ended |-> FALSE, returned |-> FALSE, ops |-> << >>]

\* client.startSession(); session.startTransaction(); return session
startTransaction ==
    /\ \E s \in Sessions :
        /\ sessions[s].state = "Idle"
        /\ \A r \in Sessions : r < s => sessions[r].state # "Idle"
        /\ sessions' = [sessions EXCEPT ![s].state = "Active"]
        /\ lastOp' = Completed("startTransaction", EmptyDoc, s, NoCmd,
                               [kind |-> "session", session |-> s], 0)
    /\ UNCHANGED <<collection, nextId, txnLog, factoryVars>>

\* await session.commitTransaction(): the store applies the buffered
\* writes; the call is then suspended in  await session.endSession().
\* On a session with no active transaction the driver refuses the call.
commitTransaction(s) ==
    /\ IF InTransaction(s) /\ ~Expired(s)
       THEN /\ collection' = ExecAll(collection, sessions[s].ops)
            /\ sessions' = [sessions EXCEPT ![s].state = "Committed",
                                            ![s].ops = << >>]
            /\ txnLog' = [txnLog EXCEPT ![s] = << >>]
            /\ lastOp' = Completed("session.commitTransaction", EmptyDoc, s,
                                   NoCmd, Ack(Len(sessions[s].ops)), 0)
       ELSE /\ lastOp' = Completed("commitTransaction", EmptyDoc, s, NoCmd,
                                   ExpiredSession, 0)
            /\ UNCHANGED <<collection, sessions, txnLog>>
    /\ UNCHANGED <<nextId, factoryVars>>

\* await session.endSession(options) resolves: commitTransaction returns.
commitEndSession(s) ==
    /\ sessions[s].state = "Committed"
    /\ ~sessions[s].returned
    /\ sessions' = [sessions EXCEPT ![s].ended = TRUE, ![s].returned = TRUE]
    /\ lastOp' = Completed("commitTransaction", EmptyDoc, s, NoCmd, Ack(0), 0)
    /\ UNCHANGED <<collection, nextId, txnLog, factoryVars>>

\* await session.abortTransaction(): the store discards the buffered
\* writes.  session.endSession(options) is then started and not awaited:
\* the call returns with the release done or still in flight.
abortTransaction(s) ==
    /\ IF InTransaction(s) /\ ~Expired(s)
       THEN /\ \E released \in BOOLEAN :
                  sessions' = [sessions EXCEPT ![s].state = "Aborted",
                                               ![s].ops = << >>,
                                               ![s].ended = released,
                                               ![s].returned = TRUE]
            /\ txnLog' = [txnLog EXCEPT ![s] = << >>]
            /\ lastOp' = Completed("abortTransaction", EmptyDoc, s, NoCmd,
                                   Ack(Len(sessions[s].ops)), 0)
       ELSE /\ lastOp' = Completed("abortTransaction", EmptyDoc, s, NoCmd,
                                   ExpiredSession, 0)
            /\ UNCHANGED <<sessions, txnLog>>
    /\ UNCHANGED <<collection, nextId, factoryVars>>

\* The endSession started by abortTransaction settles.
abortEndSession(s) ==
    /\ sessions[s].state = "Aborted"
    /\ sessions[s].returned
    /\ ~sessions[s].ended
    /\ sessions' = [sessions EXCEPT ![s].ended = TRUE]
    /\ UNCHANGED <<collection, nextId, txnLog, lastOp, factoryVars>>

\* ------------------------------------------------------------------
\* DbOperationsServiceFactory
\* ------------------------------------------------------------------
Uris == {"mongodb://a", "mongodb://b"}

Calls == 1..MaxCalls

\* this.clients[clusterUri] is undefined
NoClient == 0

IdleCall == [pc |-> "idle", uri |-> "", client |-> NoClient, hit |-> FALSE,
             connected |-> FALSE]

\* A test that also takes a cached client that is not connected for a miss.
MissOrNotConnected(uri) ==
    \/ clients[uri] = NoClient
    \/ mongoClients[clients[uri]].status # "connected"

\* !this.clients[clusterUri]
Miss(uri) == clients[uri] = NoClient

\* create, up to its first suspension: on a miss a client is constructed,
\* stored in the cache and the call awaits connect(); on a hit the call
\* runs to its end and returns a service bound to the cached client.
createStart(c, uri) ==
    /\ calls[c].pc = "idle"
    /\ \A b \in Calls : b < c => calls[b].pc # "idle"
    /\ IF Miss(uri)
       THEN /\ mongoClients' = Append(mongoClients,
                                      [uri |-> uri, status |-> "connecting"])
            /\ clients' = [clients EXCEPT ![uri] = Len(mongoClients) + 1]
            /\ calls' = [calls EXCEPT ![c] =
                            [pc |-> "connecting", uri |-> uri,
                             client |-> Len(mongoClients) + 1, hit |-> FALSE,
                             connected |-> FALSE]]
       ELSE /\ calls' = [calls EXCEPT ![c] =
                            [pc |-> "returned", uri |-> uri,
                             client |-> clients[uri], hit |-> TRUE,
                             connected |->
                                mongoClients[clients[uri]].status = "connected"]]
            /\ UNCHANGED <<clients, mongoClients>>
    /\ UNCHANGED repoVars

\* connect() resolves: the call reads the cache again and returns a
\* service bound to that client.
connectResolved(c) ==
    /\ calls[c].pc = "connecting"
    /\ mongoClients' = [mongoClients EXCEPT ![calls[c].client].status = "connected"]
    /\ calls' = [calls EXCEPT ![c].pc = "returned",
                              ![c].client = clients[calls[c].uri],
                              ![c].connected =
                                 mongoClients'[clients[calls[c].uri]].status
                                    = "connected"]
    /\ UNCHANGED <<clients, repoVars>>

\* connect() rejects: the rejection leaves create; nothing else is run.
connectRejected(c) ==
    /\ calls[c].pc = "connecting"
    /\ mongoClients' = [mongoClients EXCEPT ![calls[c].client].status = "failed"]
    /\ calls' = [calls EXCEPT ![c].pc = "failed"]
    /\ UNCHANGED <<clients, repoVars>>

\* ------------------------------------------------------------------
\* Specifications
\* ------------------------------------------------------------------
Init ==
    /\ collection = << >>
    /\ nextId = 1
    /\ sessions = [s \in Sessions |-> IdleSession]
    /\ txnLog = [s \in Sessions |-> << >>]
    /\ lastOp = Completed("none", EmptyDoc, NoSession, NoCmd, Null, 0)
    /\ clients = [u \in Uris |-> NoClient]
    /\ mongoClients = << >>
    /\ calls = [c \in Calls |-> IdleCall]

\* The calls that read, replace and delete, with no metadata producer.
CrudNext ==
    \/ \E d \in InDocs, o \in Options : insertOne(d, o)
    \/ \E f \in InFilters, o \in FindOptions : findOne("findOne", f, o)
    \/ \E n \in 1..MaxIds, o \in FindOptions : findById(HEX(n), o)
    \/ \E f \in InFilters, r \in InReplacements, o \in Options :
            replaceOne(f, r, o)
    \/ \E f \in InFilters, o \in Options : deleteOne(f, o)
    \/ \E f \in InFilters, o \in Options : deleteMany(f, o)
    \/ \E f \in InFilters, o \in Options : softDeleteOne(f, o)
    \/ \E f \in InFilters, o \in Options : softDeleteMany(f, o)

\* The calls that take a metadata producer.
MetaNext ==
    \/ \E d \in InDocs, o \in InsertOptions : insertOne(d, o)
    \/ \E ds \in InDocLists, o \in InsertOptions : insertMany(ds, o)
    \/ \E f \in InFilters, u \in InUpdates, o \in UpdateOptions :
            patchOne("patchOne", f, u, o)
    \/ \E n \in 1..MaxIds, u \in InUpdates, o \in UpdateOptions :
            patchById(HEX(n), u, o)
    \/ \E f \in InFilters, u \in InUpdates, o \in UpdateOptions :
            updateOne("updateOne", f, u, o)
    \/ \E f \in InFilters, u \in InUpdates, o \in UpdateOptions :
            updateMany("updateMany", f, u, o)
    \/ \E f \in InFilters, o \in UpdateOptions : softDeleteOne(f, o)
    \/ \E f \in InFilters, o \in UpdateOptions : softDeleteMany(f, o)

\* The calls that run a transaction, and calls made with its session or
\* with none while it runs.
TxnNext ==
    \/ \E d \in InDocs, o \in Options : insertOne(d, o)
    \/ \E f \in InFilters, o \in Options : deleteOne(f, o)
    \/ \E f \in InFilters, o \in FindOptions : findOne("findOne", f, o)
    \/ startTransaction
    \/ \E s \in HeldSessions \ {NoSession} : commitTransaction(s)
    \/ \E s \in Sessions : commitEndSession(s)
    \/ \E s \in HeldSessions \ {NoSession} : abortTransaction(s)
    \/ \E s \in Sessions : abortEndSession(s)

FactoryNext ==
    \/ \E c \in Calls, u \in Uris : createStart(c, u)
    \/ \E c \in Calls : connectResolved(c)
    \/ \E c \in Calls : connectRejected(c)

Next == CrudNext \/ MetaNext \/ TxnNext \/ FactoryNext

Spec == Init /\ [][Next]_vars

\* The parts of the system, each alone.
CrudSpec == Init /\ [][CrudNext]_vars

MetaSpec == Init /\ [][MetaNext]_vars

TxnSpec == Init /\ [][TxnNext]_vars

FactorySpec == Init /\ [][FactoryNext]_vars

\* ------------------------------------------------------------------
\* Properties of the repository without transactions (CrudSpec, MetaSpec)
\* ------------------------------------------------------------------
DefaultOptions ==
    [createMetaData |-> "none", updateMetaData |-> "none",
     session |-> NoSession, includeDeleted |-> FALSE]

IncludeDeleted == [DefaultOptions EXCEPT !.includeDeleted = TRUE]

\* C1: once softDeleteOne(F) has matched a document, findOne(F) returns
\* null, and findOne(F, {includeDeleted: true}) returns a document that
\* carries deletedAt.
C1_SoftDeletedIsHidden ==
    (lastOp.op = "softDeleteOne" /\ lastOp.result = Ack(1)) =>
        /\ findOneResult(lastOp.args.filter, DefaultOptions) = Null
        /\ LET r == findOneResult(lastOp.args.filter, IncludeDeleted)
           IN  r.kind = "doc" /\ "deletedAt" \in DOMAIN r.doc

\* C3: a replaceOne whose replacement has no fields returns null, sends
\* nothing to the store and leaves the collection (and every session's
\* buffer) as it was, whether or not the filter matches.
C3_EmptyReplacementStep ==
    (lastOp'.op = "replaceOne" /\ DOMAIN lastOp'.args.replacement = {}) =>
        /\ lastOp'.result = Null
        /\ lastOp'.sent = NoCmd
        /\ collection' = collection
        /\ sessions' = sessions

C3_EmptyReplacementIsNoop == [][C3_EmptyReplacementStep]_vars

\* replaceOne(F, {}) has run with F matching a stored document.
C3_Witness ==
    /\ lastOp.op = "replaceOne"
    /\ lastOp.args.replacement = EmptyDoc
    /\ FirstMatch(collection, lastOp.args.filter) # 0

\* W has the fields of D overlaid with those of M, M winning, and
\* besides them only the generated identifier.
IsOverlayWithId(W, D, M) ==
    /\ DOMAIN W = (DOMAIN D) \cup (DOMAIN M) \cup {"_id"}
    /\ \A k \in DOMAIN M : W[k] = M[k]
    /\ \A k \in (DOMAIN D) \ (DOMAIN M) : W[k] = D[k]
    /\ W["_id"][1] = "oid"

\* The metadata the producer p hands to its i-th caller.
MetaOf(p, i) == IF p = "none" THEN EmptyDoc ELSE Invoke(p, i)

\* C5: insertOne writes the document overlaid with the producer's
\* metadata, the metadata winning; without a producer it writes the
\* document's own fields and the identifier; insertMany does so for each
\* element.  A write made with no session is the collection's last
\* document(s).
C5_InsertOverlay ==
    /\ lastOp.op = "insertOne" =>
          LET W == lastOp.sent.doc
          IN  /\ IsOverlayWithId(W, lastOp.args.doc,
                                 MetaOf(lastOp.args.producer, 1))
              /\ lastOp.args.producer = "none" =>
                    Without(W, {"_id"}) = lastOp.args.doc
              /\ lastOp.session = NoSession =>
                    /\ Len(collection) >= 1
                    /\ collection[Len(collection)] = W
    /\ lastOp.op = "insertMany" =>
          LET Ws == lastOp.sent.docs
              n == Len(lastOp.args.docs)
          IN  /\ Len(Ws) = n
              /\ \A i \in 1..n :
                    /\ IsOverlayWithId(Ws[i], lastOp.args.docs[i],
                                       MetaOf(lastOp.args.producer, i))
                    /\ lastOp.args.producer = "none" =>
                          Without(Ws[i], {"_id"}) = lastOp.args.docs[i]
              /\ lastOp.session = NoSession =>
                    /\ Len(collection) >= n
                    /\ \A i \in 1..n :
                          collection[Len(collection) - n + i] = Ws[i]

\* insertOne has written a document one of whose fields the producer
\* also sets.
C5_Witness ==
    /\ lastOp.op = "insertOne"
    /\ lastOp.args.producer = "counter"
    /\ "age" \in DOMAIN lastOp.args.doc
    /\ lastOp.session = NoSession
    /\ collection[Len(collection)]["age"] = NUM(1)

UpdateEntries ==
    {"patchOne", "patchById", "updateOne", "updateMany",
     "softDeleteOne", "softDeleteMany"}

\* C6: with a producer, the update sent to the store has the caller's
\* directives other than $set unchanged and a $set that is the caller's
\* $set overlaid with the metadata, the metadata winning; without a
\* producer the update is sent as given.
C6_UpdateMetaMerge ==
    lastOp.op \in UpdateEntries =>
        LET U == lastOp.args.update
            S == lastOp.sent.update
            M == MetaOf(lastOp.args.producer, 1)
            callerSet == IF "$set" \in DOMAIN U THEN U["$set"] ELSE EmptyDoc
        IN  IF lastOp.args.producer = "none" THEN S = U
            ELSE /\ DOMAIN S = (DOMAIN U) \cup {"$set"}
                 /\ \A d \in (DOMAIN U) \ {"$set"} : S[d] = U[d]
                 /\ DOMAIN S["$set"] = (DOMAIN callerSet) \cup (DOMAIN M)
                 /\ \A k \in DOMAIN M : S["$set"][k] = M[k]
                 /\ \A k \in (DOMAIN callerSet) \ (DOMAIN M) :
                        S["$set"][k] = callerSet[k]

\* updateOne has run with a producer that sets a field of the caller's
\* $set, and the matched document holds the producer's value.
C6_Witness ==
    /\ lastOp.op = "updateOne"
    /\ lastOp.args.producer = "counter"
    /\ "age" \in DOMAIN Directive(lastOp.args.update, "$set")
    /\ lastOp.result = Ack(1)
    /\ LET i == FirstMatch(collection, lastOp.args.filter)
       IN  i # 0 /\ collection[i]["age"] = NUM(1)

ProducerEntries == UpdateEntries \cup {"insertOne", "insertMany"}

\* C10 as claimed: an operation handed a producer invokes it exactly once.
C10_OncePerOperation ==
    (lastOp.op \in ProducerEntries /\ lastOp.args.producer # "none") =>
        lastOp.metaCalls = 1

\* C10 as amended: insertMany invokes the producer once per document, its
\* i-th document carrying the i-th invocation's value; every other write
\* operation invokes it exactly once.
C10_OncePerOperationOrDocument ==
    (lastOp.op \in ProducerEntries /\ lastOp.args.producer # "none") =>
        IF lastOp.op = "insertMany"
        THEN /\ lastOp.metaCalls = Len(lastOp.args.docs)
             /\ lastOp.args.producer = "counter" =>
                   \A i \in 1..Len(lastOp.args.docs) :
                        lastOp.sent.docs[i]["age"] = NUM(i)
        ELSE lastOp.metaCalls = 1

\* insertMany has inserted two documents with a producer.
C10_Witness ==
    /\ lastOp.op = "insertMany"
    /\ lastOp.args.producer = "counter"
    /\ Len(lastOp.args.docs) = 2
    /\ lastOp.metaCalls = 2
    /\ Len(collection) = 2

\* ------------------------------------------------------------------
\* Properties of transactions (TxnSpec)
\* ------------------------------------------------------------------
\* C4: a write made with the session of an active transaction does not
\* change what reads outside the session see, nor does the abort of the
\* transaction; its commit changes the collection by exactly the writes
\* made with the session, in their order.
C4_TransactionStep ==
    \A s \in Sessions :
        /\ (InTransaction(s) /\ Len(txnLog'[s]) > Len(txnLog[s])) =>
                collection' = collection
        /\ (InTransaction(s) /\ sessions'[s].state = "Aborted") =>
                collection' = collection
        /\ (InTransaction(s) /\ sessions'[s].state = "Committed") =>
                collection' = ExecAll(collection, txnLog[s])

C4_TransactionVisibility == [][C4_TransactionStep]_vars

\* A commit has just made a document inserted under the session visible.
C4_Witness ==
    /\ lastOp.op = "session.commitTransaction"
    /\ lastOp.result.n >= 1
    /\ collection # << >>
    /\ findOneResult(EmptyDoc, DefaultOptions).kind = "doc"

\* C9: startTransaction yields an Active session; once commitTransaction
\* has returned the session is Committed and released, and once
\* abortTransaction has returned it is Aborted and released.
C9_SessionReleasedOnReturn ==
    /\ lastOp.op = "startTransaction" =>
            sessions[lastOp.session].state = "Active"
    /\ \A s \in Sessions :
            sessions[s].returned =>
                /\ sessions[s].state \in {"Committed", "Aborted"}
                /\ sessions[s].ended

\* ------------------------------------------------------------------
\* Properties of the factory (FactorySpec)
\* ------------------------------------------------------------------
ClientsOf(uri) == {i \in 1..Len(mongoClients) : mongoClients[i].uri = uri}

\* C2: a create whose handshake failed has failed, and the cache holds no
\* client whose handshake failed, so that no later create is served one.
C2_FailedHandshakeNotCached ==
    /\ \A c \in Calls :
            (calls[c].client # NoClient /\ ~calls[c].hit
                /\ mongoClients[calls[c].client].status = "failed") =>
                    calls[c].pc = "failed"
    /\ \A u \in Uris :
            clients[u] # NoClient => mongoClients[clients[u]].status # "failed"
    /\ \A c \in Calls :
            (calls[c].pc = "returned" /\ calls[c].hit) =>
                mongoClients[calls[c].client].status # "failed"

\* C7: at most one client is ever constructed for an address, and every
\* service returned for the address is bound to it.
C7_OneClientPerAddress ==
    /\ \A u \in Uris : Cardinality(ClientsOf(u)) <= 1
    /\ \A c \in Calls :
            calls[c].pc = "returned" =>
                /\ calls[c].client \in ClientsOf(calls[c].uri)
                /\ calls[c].client = clients[calls[c].uri]

\* A second create for an address has returned while the first is still
\* suspended in the handshake.
C7_Witness ==
    \E a, b \in Calls :
        /\ a # b
        /\ calls[a].uri = calls[b].uri
        /\ calls[a].pc = "connecting"
        /\ calls[b].pc = "returned"
        /\ calls[b].hit

\* C8: a service returned on a cache hit is bound to a client whose
\* handshake had completed when create returned.
C8_HitIsConnected ==
    \A c \in Calls :
        (calls[c].pc = "returned" /\ calls[c].hit) => calls[c].connected

\* C11: after patchById(id, U) outside a transaction, with id the string form
\* of an identifier the store generated, the filter sent to the store is the
\* one findById(id) builds, and whenever findById(id) returns a document the
\* patch matched exactly that one document.
C11_PatchByIdSelectsFindById ==
    (lastOp.op = "patchById" /\ lastOp.session = NoSession) =>
        LET id == lastOp.args.filter["_id"]
            byId == findOneResult([_id |-> ObjectId(id)], DefaultOptions)
        IN  /\ lastOp.sent.filter = [_id |-> ObjectId(id)]
            /\ byId # Null => lastOp.result = Ack(1)

====
